---- MODULE Spec2Model ----
(***************************************************************************)
(* Model of on_device_training/mobile/android/c-cpp/train.ipynb: the       *)
(* dataset indexer (load_dataset_files), the image preprocessor            *)
(* (image_file_to_tensor), the training loop and the inference cells.      *)
(*                                                                         *)
(* The onnxruntime training API is external to the notebook.  Its calls    *)
(* are modelled by their effect on an opaque TrainingState: the module     *)
(* call returns some loss and populates the gradients, optimizer.step()    *)
(* produces a new version of the parameters, lazy_reset_grad() clears the  *)
(* gradients.  Every external call is recorded in callLog in the order in  *)
(* which the notebook issues it.                                           *)
(*                                                                         *)
(* The notebook sets num_samples_per_class = 20 and num_epochs = 5.  The   *)
(* loops are modelled for every value of the two; the values below are the *)
(* ones the model checker explores.                                        *)
(***************************************************************************)
EXTENDS Integers, Sequences, FiniteSets, TLC

VARIABLES
    pc,          \* position of the notebook's execution
    fs,          \* data/images/<label>: does the directory exist, its listing
    animals,     \* the dictionary label -> list of paths
    epoch,       \* loop variable of the outer loop
    index,       \* loop variable of the inner loop
    loss,        \* accumulator of the epoch
    batch,       \* list of tensors of the step
    labels,      \* list of label ids of the step
    mode,        \* external: train/eval mode of the module
    params,      \* external: version of the parameters (optimizer steps applied)
    grads,       \* external: state of the gradients
    exported,    \* external: parameter version of inference_artifacts/inference.onnx
    session,     \* parameter version the InferenceSession was loaded from
    printed,     \* what the notebook has printed
    callLog,     \* external calls issued so far
    err          \* uncaught exception, if any

vars == <<pc, fs, animals, epoch, index, loss, batch, labels, mode, params,
          grads, exported, session, printed, callLog, err>>

----------------------------------------------------------------------------
(* Bounds of the exploration *)

num_samples_per_class == 2
num_epochs == 2
MaxLoss == 2         \* the module call returns a loss of 1 or of MaxLoss
MaxDim == 12         \* image widths and heights are in 1..MaxDim

\* A class holds at most one file more than a run reads.
MaxFiles == num_samples_per_class + 1

----------------------------------------------------------------------------
(* Training metadata and the data model *)

AnimalOrder == <<"dog", "cat", "elephant", "cow">>

Animals == {AnimalOrder[k] : k \in DOMAIN AnimalOrder}

label_to_id_map == [dog |-> 0, cat |-> 1, elephant |-> 2, cow |-> 3]

TestFiles == <<"test1", "test2">>

NoVersion == -1

File(dir, name, size) == [dir |-> dir, name |-> name, size |-> size]

\* Dimensions of the image stored in a file: image.size after Image.open.
\* The files of the run have fixed dimensions, a mix of wide, tall and square
\* images.
ImageSize(dir, k) ==
    IF dir \in Animals
    THEN <<1 + ((label_to_id_map[dir] + k) % 3), 1 + (k % 3)>>
    ELSE <<2 + k, 2>>

Listing(dir, n) == [k \in 1..n |-> File(dir, k, ImageSize(dir, k))]

\* The datasets explored, as the number of files of each class (-1: the
\* directory does not exist).
DatasetSizes == [Animals -> -1..MaxFiles]

\* glob.glob(f"data/images/{animal}/*"): the listing of the directory, the
\* empty list when the directory does not exist.
Glob(animal) == IF fs[animal].exists THEN fs[animal].files ELSE <<>>

----------------------------------------------------------------------------
(* Image preprocessor *)

\* Variant: the same margin on both sides of the longer dimension.
CropBoxSymmetric(width, height) ==
    IF width > height
    THEN <<(width - height) \div 2, 0, width - ((width - height) \div 2), height>>
    ELSE <<0, (height - width) \div 2, width, height - ((height - width) \div 2)>>

\* Variant: the crop is taken from the origin instead of the centre.
CropBoxFromOrigin(width, height) ==
    IF width > height
    THEN <<0, 0, height, height>>
    ELSE <<0, 0, width, width>>

\* Variant: right and bottom taken as the last column and row of the region.
CropBoxInclusive(width, height) ==
    IF width > height
    THEN <<(width - height) \div 2, 0, ((width + height) \div 2) - 1, height - 1>>
    ELSE <<0, (height - width) \div 2, width - 1, ((height + width) \div 2) - 1>>

\* The crop box (left, top, right, bottom) of image_file_to_tensor.
CropBox(width, height) ==
    IF width > height
    THEN <<(width - height) \div 2, 0, (width + height) \div 2, height>>
    ELSE <<0, (height - width) \div 2, width, (height + width) \div 2>>

\* The tensor of a file: the region of the image it is resampled from.
image_file_to_tensor(file) ==
    [file |-> file, box |-> CropBox(file.size[1], file.size[2])]

----------------------------------------------------------------------------
(* The run of the notebook *)

Init ==
    /\ pc = "load"
    /\ \E cnt \in DatasetSizes :
          fs = [a \in Animals |->
                   [exists |-> cnt[a] >= 0,
                    files  |-> IF cnt[a] >= 0 THEN Listing(a, cnt[a]) ELSE <<>>]]
    /\ animals = [a \in Animals |-> <<>>]
    /\ epoch = 0
    /\ index = 0
    /\ loss = 0
    /\ batch = <<>>
    /\ labels = <<>>
    /\ mode = "default"
    /\ params = 0
    /\ grads = "zero"
    /\ exported = NoVersion
    /\ session = NoVersion
    /\ printed = <<>>
    /\ callLog = <<>>
    /\ err = "none"

\* Variant: a listing that raises on a directory that does not exist.
LoadDatasetFilesStrict ==
    /\ pc = "load"
    /\ epoch' = 0
    /\ IF \A a \in Animals : fs[a].exists
       THEN /\ animals' = [a \in Animals |-> Glob(a)]
            /\ pc' = IF 0 < num_epochs THEN "epoch" ELSE "export"
            /\ err' = err
       ELSE /\ animals' = animals
            /\ pc' = "error"
            /\ err' = "FileNotFoundError"
    /\ UNCHANGED <<fs, index, loss, batch, labels, mode, params, grads,
                   exported, session, printed, callLog>>

\* animals = load_dataset_files(), then the cells up to the training loop.
LoadDatasetFiles ==
    /\ pc = "load"
    /\ animals' = [a \in Animals |-> Glob(a)]
    /\ epoch' = 0
    /\ pc' = IF 0 < num_epochs THEN "epoch" ELSE "export"
    /\ UNCHANGED <<fs, index, loss, batch, labels, mode, params, grads,
                   exported, session, printed, callLog, err>>

\* The losses the module call may return: a low one and a high one.
Losses == {1, MaxLoss}

\* Variant: the accumulator is not reset at the head of the epoch.
EpochStartKeepLoss ==
    /\ pc = "epoch"
    /\ mode' = "train"
    /\ index' = 0
    /\ callLog' = Append(callLog, [call |-> "train"])
    /\ pc' = IF 0 < num_samples_per_class THEN "batch" ELSE "print"
    /\ UNCHANGED <<fs, animals, epoch, loss, batch, labels, params, grads,
                   exported, session, printed, err>>

\* Head of an epoch: model.train(); loss = 0; the inner loop starts.
EpochStart ==
    /\ pc = "epoch"
    /\ mode' = "train"
    /\ loss' = 0
    /\ index' = 0
    /\ callLog' = Append(callLog, [call |-> "train"])
    /\ pc' = IF 0 < num_samples_per_class THEN "batch" ELSE "print"
    /\ UNCHANGED <<fs, animals, epoch, batch, labels, params, grads,
                   exported, session, printed, err>>

\* animals[animal][index] raises IndexError when the list is too short.
OutOfRange(animal) == index >= Len(animals[animal])

\* Number of classes the for loop over animals handles before the first
\* IndexError (all of them when there is none).
Handled ==
    IF \E k \in DOMAIN AnimalOrder : OutOfRange(AnimalOrder[k])
    THEN (CHOOSE k \in DOMAIN AnimalOrder :
            /\ OutOfRange(AnimalOrder[k])
            /\ \A j \in 1..(k - 1) : ~OutOfRange(AnimalOrder[j])) - 1
    ELSE Len(AnimalOrder)

\* Variant: the paths are indexed from 1.
BuildBatchOneBased ==
    /\ pc = "batch"
    /\ LET ok == \A a \in Animals : index + 1 < Len(animals[a])
       IN IF ok
          THEN /\ batch' = [k \in 1..Len(AnimalOrder) |->
                       image_file_to_tensor(animals[AnimalOrder[k]][index + 2])]
               /\ labels' = [k \in 1..Len(AnimalOrder) |->
                       label_to_id_map[AnimalOrder[k]]]
               /\ pc' = "forward" /\ err' = err
          ELSE /\ batch' = <<>> /\ labels' = <<>>
               /\ pc' = "error" /\ err' = "IndexError"
    /\ UNCHANGED <<fs, animals, epoch, index, loss, mode, params, grads,
                   exported, session, printed, callLog>>

\* Variant: batch and labels are not emptied at the head of the step.
BuildBatchNotFresh ==
    /\ pc = "batch"
    /\ batch' = batch \o [k \in 1..Handled |->
                    image_file_to_tensor(animals[AnimalOrder[k]][index + 1])]
    /\ labels' = labels \o [k \in 1..Handled |-> label_to_id_map[AnimalOrder[k]]]
    /\ IF Handled = Len(AnimalOrder)
       THEN /\ pc' = "forward" /\ err' = err
       ELSE /\ pc' = "error" /\ err' = "IndexError"
    /\ UNCHANGED <<fs, animals, epoch, index, loss, mode, params, grads,
                   exported, session, printed, callLog>>

\* Variant: a class that has no path at this index is left out of the batch.
BuildBatchSkipShort ==
    /\ pc = "batch"
    /\ LET have == SelectSeq(AnimalOrder, LAMBDA a : ~OutOfRange(a))
       IN /\ batch' = [k \in 1..Len(have) |->
                          image_file_to_tensor(animals[have[k]][index + 1])]
          /\ labels' = [k \in 1..Len(have) |-> label_to_id_map[have[k]]]
    /\ pc' = "forward"
    /\ UNCHANGED <<fs, animals, epoch, index, loss, mode, params, grads,
                   exported, session, printed, callLog, err>>

\* batch = []; labels = []; one tensor and one label id per animal, in the
\* iteration order of the dictionary.
BuildBatch ==
    /\ pc = "batch"
    /\ batch' = <<>> \o [k \in 1..Handled |->
                    image_file_to_tensor(animals[AnimalOrder[k]][index + 1])]
    /\ labels' = <<>> \o [k \in 1..Handled |-> label_to_id_map[AnimalOrder[k]]]
    /\ IF Handled = Len(AnimalOrder)
       THEN /\ pc' = "forward" /\ err' = err
       ELSE /\ pc' = "error" /\ err' = "IndexError"
    /\ UNCHANGED <<fs, animals, epoch, index, loss, mode, params, grads,
                   exported, session, printed, callLog>>

\* Variant: the step goes from the module call to the gradient reset.
ModelCallThenReset ==
    /\ pc = "forward"
    /\ \E l \in Losses :
          /\ loss' = loss + l
          /\ callLog' = Append(callLog, [call |-> "forward", batch |-> batch,
                                         labels |-> labels, loss |-> l])
    /\ grads' = "populated"
    /\ pc' = "reset"
    /\ UNCHANGED <<fs, animals, epoch, index, batch, labels, mode, params,
                   exported, session, printed, err>>

\* loss += model([batch, labels])[0]
ModelCall ==
    /\ pc = "forward"
    /\ \E l \in Losses :
          /\ loss' = loss + l
          /\ callLog' = Append(callLog, [call |-> "forward", batch |-> batch,
                                         labels |-> labels, loss |-> l])
    /\ grads' = "populated"
    /\ pc' = "step"
    /\ UNCHANGED <<fs, animals, epoch, index, batch, labels, mode, params,
                   exported, session, printed, err>>

\* optimizer.step()
OptimizerStep ==
    /\ pc = "step"
    /\ params' = params + 1
    /\ callLog' = Append(callLog, [call |-> "step"])
    /\ pc' = "reset"
    /\ UNCHANGED <<fs, animals, epoch, index, loss, batch, labels, mode,
                   grads, exported, session, printed, err>>

\* model.lazy_reset_grad(), then the inner loop advances.
LazyResetGrad ==
    /\ pc = "reset"
    /\ grads' = "zero"
    /\ callLog' = Append(callLog, [call |-> "reset"])
    /\ index' = index + 1
    /\ pc' = IF index + 1 < num_samples_per_class THEN "batch" ELSE "print"
    /\ UNCHANGED <<fs, animals, epoch, loss, batch, labels, mode, params,
                   exported, session, printed, err>>

\* print(f"Epoch {epoch+1} Loss {loss/num_samples_per_class}"), then the
\* outer loop advances.  The quotient is kept as numerator and denominator.
PrintEpoch ==
    /\ pc = "print"
    /\ printed' = Append(printed, [kind |-> "epoch", epoch |-> epoch + 1,
                                   num |-> loss, den |-> num_samples_per_class])
    /\ epoch' = epoch + 1
    /\ pc' = IF epoch + 1 < num_epochs THEN "epoch" ELSE "export"
    /\ UNCHANGED <<fs, animals, index, loss, batch, labels, mode, params,
                   grads, exported, session, callLog, err>>

\* model.export_model_for_inferencing("inference_artifacts/inference.onnx", ["output"])
ExportModel ==
    /\ pc = "export"
    /\ exported' = params
    /\ callLog' = Append(callLog, [call |-> "export"])
    /\ pc' = "session"
    /\ UNCHANGED <<fs, animals, epoch, index, loss, batch, labels, mode,
                   params, grads, session, printed, err>>

\* session = InferenceSession("inference_artifacts/inference.onnx", ...)
CreateSession ==
    /\ pc = "session"
    /\ session' = exported
    /\ callLog' = Append(callLog, [call |-> "session"])
    /\ pc' = "predict"
    /\ UNCHANGED <<fs, animals, epoch, index, loss, batch, labels, mode,
                   params, grads, exported, printed, err>>

\* Number of predict calls made so far.
Predicted == Cardinality({k \in DOMAIN callLog : callLog[k].call = "run"})

\* Variant: predict also runs the training module on its input.
PredictWithModule ==
    /\ pc = "predict"
    /\ LET k == Predicted + 1
           input == <<image_file_to_tensor(
                        File("inference_artifacts", k,
                             ImageSize("inference_artifacts", k)))>>
       IN /\ callLog' = Append(callLog, [call |-> "run", input |-> input,
                                         model |-> session])
          /\ printed' = Append(printed, [kind |-> "prediction", test |-> TestFiles[k]])
          /\ pc' = IF k < Len(TestFiles) THEN "predict" ELSE "done"
    /\ grads' = "populated"
    /\ UNCHANGED <<fs, animals, epoch, index, loss, batch, labels, mode,
                   params, exported, session, err>>

\* predict("inference_artifacts/test<k>.jpg", "test<k>"), one cell per test file.
Predict ==
    /\ pc = "predict"
    /\ LET k == Predicted + 1
           input == <<image_file_to_tensor(
                        File("inference_artifacts", k,
                             ImageSize("inference_artifacts", k)))>>
       IN /\ callLog' = Append(callLog, [call |-> "run", input |-> input,
                                         model |-> session])
          /\ printed' = Append(printed, [kind |-> "prediction", test |-> TestFiles[k]])
          /\ pc' = IF k < Len(TestFiles) THEN "predict" ELSE "done"
    /\ UNCHANGED <<fs, animals, epoch, index, loss, batch, labels, mode,
                   params, grads, exported, session, err>>

Next ==
    \/ LoadDatasetFiles
    \/ EpochStart
    \/ BuildBatch
    \/ ModelCall
    \/ OptimizerStep
    \/ LazyResetGrad
    \/ PrintEpoch
    \/ ExportModel
    \/ CreateSession
    \/ Predict

Spec == Init /\ [][Next]_vars

\* The notebook runs in one thread and every cell is run: a statement that
\* can execute does execute.
FairSpec == Spec /\ WF_vars(Next)

----------------------------------------------------------------------------
(* The preprocessor on its own: images of every size in 1..MaxDim *)

CropInit ==
    /\ pc = "preprocess"
    /\ fs = [a \in Animals |-> [exists |-> FALSE, files |-> <<>>]]
    /\ animals = [a \in Animals |-> <<>>]
    /\ epoch = 0
    /\ index = 0
    /\ loss = 0
    /\ batch = <<>>
    /\ labels = <<>>
    /\ mode = "default"
    /\ params = 0
    /\ grads = "zero"
    /\ exported = NoVersion
    /\ session = NoVersion
    /\ printed = <<>>
    /\ callLog = <<>>
    /\ err = "none"

\* np.stack([image_file_to_tensor(file)]) for an image of any dimensions.
Preprocess ==
    /\ pc = "preprocess"
    /\ \E w \in 1..MaxDim, h \in 1..MaxDim :
          batch' = <<image_file_to_tensor(File("inference_artifacts", 1, <<w, h>>))>>
    /\ UNCHANGED <<pc, fs, animals, epoch, index, loss, labels, mode, params,
                   grads, exported, session, printed, callLog, err>>

CropNext == Preprocess

CropSpec == CropInit /\ [][CropNext]_vars

----------------------------------------------------------------------------
(* Observations on a state *)

Min(a, b) == IF a < b THEN a ELSE b

Calls(name) == {k \in DOMAIN callLog : callLog[k].call = name}

\* The calls of the training steps, in the order they were issued.
StepCalls == SelectSeq(callLog, LAMBDA e : e.call \in {"forward", "step", "reset"})

ForwardCalls == SelectSeq(callLog, LAMBDA e : e.call = "forward")

\* The lines "Epoch <n> Loss <x>" printed so far.
EpochLines == SelectSeq(printed, LAMBDA p : p.kind = "epoch")

TrainingOver == pc \in {"export", "session", "predict", "done"}

Loaded == pc \notin {"load", "preprocess"}

\* Every label maps to at least num_samples_per_class paths.
Enough == Loaded /\ \A a \in Animals : Len(animals[a]) >= num_samples_per_class

\* Size of the smallest class.
Smallest == CHOOSE m \in 0..MaxFiles :
                /\ \E a \in Animals : Len(animals[a]) = m
                /\ \A a \in Animals : Len(animals[a]) >= m

Short == Loaded /\ Smallest < num_samples_per_class

RECURSIVE SumLoss(_, _, _)
SumLoss(calls, lo, hi) ==
    IF lo > hi THEN 0 ELSE calls[lo].loss + SumLoss(calls, lo + 1, hi)

Width(t) == t.file.size[1]
Height(t) == t.file.size[2]
Left(t) == t.box[1]
Top(t) == t.box[2]
Right(t) == t.box[3]
Bottom(t) == t.box[4]

----------------------------------------------------------------------------
(* Claims on the preprocessor, under CropSpec *)

\* C1: for an image of width w >= 1 and height h >= 1 the crop box has
\* right - left = bottom - top = min(w, h).
C1_CropIsSquareOfMinSide ==
    \A k \in DOMAIN batch :
        LET t == batch[k]
        IN /\ Width(t) >= 1 /\ Height(t) >= 1
           /\ Right(t) - Left(t) = Bottom(t) - Top(t)
           /\ Right(t) - Left(t) = Min(Width(t), Height(t))

C1_Witness ==
    /\ pc = "preprocess"
    /\ batch # <<>>
    /\ Width(batch[1]) = Height(batch[1]) + 3

\* C2 as stated: the two margins removed along the longer dimension are
\* equal, each (w - h) / 2 truncated when w > h.
C2_MarginsEqual ==
    \A k \in DOMAIN batch :
        LET t == batch[k]
        IN IF Width(t) > Height(t)
           THEN /\ Left(t) = (Width(t) - Height(t)) \div 2
                /\ Width(t) - Right(t) = (Width(t) - Height(t)) \div 2
           ELSE Top(t) = Height(t) - Bottom(t)

\* C2 amended: the margin removed first (left, or top) is the difference of
\* the dimensions halved and truncated; the opposite margin (right, or
\* bottom) is the rest of the difference, so it is the same when the
\* difference is even and one larger when it is odd.  Nothing is removed along
\* the shorter dimension.
C2_MarginsCentered ==
    \A k \in DOMAIN batch :
        LET t == batch[k]
            dw == Width(t) - Height(t)
            dh == Height(t) - Width(t)
        IN IF Width(t) > Height(t)
           THEN /\ Left(t) = dw \div 2
                /\ Width(t) - Right(t) = dw - (dw \div 2)
                /\ Top(t) = 0 /\ Bottom(t) = Height(t)
           ELSE /\ Top(t) = dh \div 2
                /\ Height(t) - Bottom(t) = dh - (dh \div 2)
                /\ Left(t) = 0 /\ Right(t) = Width(t)

C2_Witness ==
    /\ pc = "preprocess"
    /\ batch # <<>>
    /\ Height(batch[1]) = Width(batch[1]) + 5
    /\ Top(batch[1]) = 2
    /\ Height(batch[1]) - Bottom(batch[1]) = 3

\* C3: for a square image of side s >= 1 the crop box is (0, 0, s, s).
C3_SquareIsNoOp ==
    \A k \in DOMAIN batch :
        LET t == batch[k]
        IN Width(t) = Height(t) => t.box = <<0, 0, Width(t), Width(t)>>

C3_Witness ==
    /\ pc = "preprocess"
    /\ batch # <<>>
    /\ Width(batch[1]) = Height(batch[1])
    /\ Width(batch[1]) > 1

----------------------------------------------------------------------------
(* Claims on the run of the notebook *)

C4_Safe ==
    Enough =>
        /\ pc # "error"
        /\ err = "none"
        /\ TrainingOver =>
              /\ Cardinality(Calls("train")) = num_epochs
              /\ Cardinality(Calls("forward")) = num_epochs * num_samples_per_class
              /\ Cardinality(Calls("step")) = num_epochs * num_samples_per_class
              /\ Cardinality(Calls("reset")) = num_epochs * num_samples_per_class
              /\ Len(EpochLines) = num_epochs
              /\ \A e \in 1..num_epochs : EpochLines[e].epoch = e

\* C4: when every label maps to at least num_samples_per_class paths, the
\* training loop ends, without error, after num_epochs epochs of
\* num_samples_per_class steps each, with one loss line per epoch, numbered
\* 1..num_epochs in order.
C4_TrainingCompletes == [](C4_Safe) /\ [](Enough => <>TrainingOver)

C4_Witness ==
    /\ Enough
    /\ pc = "export"
    /\ Len(EpochLines) = num_epochs
    /\ \E a \in Animals : Len(animals[a]) > num_samples_per_class

C5_Safe ==
    (\E a \in Animals : Len(Glob(a)) < num_samples_per_class) =>
        /\ Loaded => \A a \in Animals :
                        animals[a] = IF fs[a].exists THEN fs[a].files ELSE <<>>
        /\ pc = "error" => /\ err = "IndexError"
                           /\ Calls("train") # {}
                           /\ callLog[Len(callLog)].call \in {"train", "reset"}
        /\ pc # "error" => err = "none"
        /\ ~TrainingOver
        /\ Calls("export") = {} /\ Calls("session") = {} /\ Calls("run") = {}
        /\ exported = NoVersion /\ session = NoVersion

\* C5: when some label maps to fewer than num_samples_per_class paths (a
\* missing directory gives the empty list), the indexer completes without
\* error, the run aborts in the training loop with an IndexError, and the
\* export and the inference are never reached.
C5_ShortClassAbortsInTraining ==
    [](C5_Safe) /\ []((Loaded /\ Short) => <>(pc = "error"))

C5_Witness ==
    /\ pc = "error"
    /\ err = "IndexError"
    /\ \E a \in Animals : ~fs[a].exists
    /\ \E a \in Animals : fs[a].exists /\ Len(animals[a]) >= num_samples_per_class

\* C6: the calls of the training steps are issued in the order module call,
\* optimizer.step(), lazy_reset_grad(), repeated, across steps and epochs; the
\* module call before an optimizer step is the one on the current batch, and
\* the gradients are reset when the next module call is made.
C6_StepCallOrder ==
    /\ \A k \in DOMAIN StepCalls :
          StepCalls[k].call = <<"forward", "step", "reset">>[((k - 1) % 3) + 1]
    /\ pc = "step" =>
          /\ callLog[Len(callLog)].call = "forward"
          /\ callLog[Len(callLog)].batch = batch
          /\ callLog[Len(callLog)].labels = labels
          /\ grads = "populated"
    /\ pc = "reset" => callLog[Len(callLog)].call = "step"
    /\ pc \in {"batch", "forward"} => grads = "zero"

C6_Witness ==
    /\ Len(StepCalls) = 3 * num_samples_per_class + 2
    /\ pc = "reset"
    /\ epoch = 1

\* C7: the loss of an epoch line is the sum of the losses returned by the
\* num_samples_per_class module calls of that epoch, divided by
\* num_samples_per_class; the accumulator is 0 when an epoch starts.
C7_EpochMeanLoss ==
    /\ \A e \in DOMAIN EpochLines :
          /\ Len(ForwardCalls) >= e * num_samples_per_class
          /\ EpochLines[e].den > 0
          /\ EpochLines[e].num * num_samples_per_class =
                SumLoss(ForwardCalls, (e - 1) * num_samples_per_class + 1,
                        e * num_samples_per_class) * EpochLines[e].den
    /\ (pc = "batch" /\ index = 0) => loss = 0

C7_Witness ==
    /\ Len(EpochLines) >= 2
    /\ EpochLines[1].num > EpochLines[2].num
    /\ EpochLines[2].num > num_samples_per_class

\* C8: the batch of the module call of step index i holds one tensor per class,
\* 4 of them, the k-th built from the i-th path of the k-th class in the order
\* dog, cat, elephant, cow; the labels are the ids of these classes, 0, 1, 2, 3;
\* nothing of an earlier step is left in either.
C8_BatchPerClass ==
    \A n \in DOMAIN ForwardCalls :
        LET call == ForwardCalls[n]
            i == (n - 1) % num_samples_per_class
            order == <<"dog", "cat", "elephant", "cow">>
        IN /\ Len(call.batch) = 4
           /\ Len(call.batch) = Cardinality(Animals)
           /\ Len(call.labels) = Len(call.batch)
           /\ call.labels = <<0, 1, 2, 3>>
           /\ \A k \in 1..Len(call.batch) :
                 /\ call.batch[k].file.dir = order[k]
                 /\ call.batch[k].file = animals[order[k]][i + 1]
                 /\ call.labels[k] = label_to_id_map[call.batch[k].file.dir]

C8_Witness ==
    /\ Len(ForwardCalls) = num_samples_per_class + 2
    /\ ForwardCalls[Len(ForwardCalls)].batch[3].file = animals["elephant"][2]

Stage(call) ==
    CASE call \in {"train", "forward", "step", "reset"} -> 1
      [] call = "export" -> 2
      [] call = "session" -> 3
      [] call = "run" -> 4

C9_Order ==
    /\ \A i, j \in DOMAIN callLog :
          Stage(callLog[i].call) < Stage(callLog[j].call) => i < j
    /\ Calls("export") # {} =>
          /\ Cardinality(Calls("reset")) = num_epochs * num_samples_per_class
          /\ Len(EpochLines) = num_epochs
    /\ Calls("session") # {} => Cardinality(Calls("export")) = 1
    /\ Calls("run") # {} => /\ Cardinality(Calls("session")) = 1
                            /\ session = exported
                            /\ session = params
    /\ \A k \in Calls("run") : callLog[k].model = num_epochs * num_samples_per_class

\* C9: the export is requested after the last training step of the last
\* epoch, the session is created after the export, predict is called after
\* the session exists; predict leaves the TrainingState as it is, which only
\* the steps of the training loop change.
C9_StagesInSequence ==
    /\ [](C9_Order)
    /\ [][Predicted' # Predicted => UNCHANGED <<params, grads, mode>>]_vars
    /\ [][params' # params => callLog' = Append(callLog, [call |-> "step"])]_vars

C9_Witness ==
    /\ pc = "done"
    /\ Predicted = 2
    /\ params = num_epochs * num_samples_per_class

\* C10: when the smallest class has m < num_samples_per_class paths, the run
\* aborts in the first epoch at step index m before the module call of that
\* step: m module calls, m optimizer steps and m gradient resets were made,
\* the parameters keep the m updates, and no epoch line was printed.
C10_AbortAtSmallestClass ==
    Short =>
        /\ Cardinality(Calls("forward")) <= Smallest
        /\ EpochLines = <<>>
        /\ epoch = 0
        /\ index <= Smallest
        /\ pc = "error" =>
              /\ index = Smallest
              /\ Cardinality(Calls("train")) = 1
              /\ Cardinality(Calls("forward")) = Smallest
              /\ Cardinality(Calls("step")) = Smallest
              /\ Cardinality(Calls("reset")) = Smallest
              /\ params = Smallest
              /\ printed = <<>>

C10_Witness ==
    /\ pc = "error"
    /\ Short
    /\ Smallest = num_samples_per_class - 1
    /\ params = Smallest

====
